---- MODULE Spec2Model ----
(***************************************************************************)
(* Resume screening App (src/types.ts): the App component's state, the     *)
(* batch loop of handleScreening, screenResume and retryOperation.         *)
(*                                                                         *)
(* A step of the model is one run-to-completion block of the JavaScript    *)
(* event loop: a UI event handler, or the part of an async function between *)
(* two suspensions (provider call, backoff timer, demo timer, publish      *)
(* timer).                                                                 *)
(***************************************************************************)
EXTENDS Integers, Sequences, FiniteSets, TLC

\* ------------------------------------------------------------------ bounds
\* Longest queue of resumes the inputs build.
MaxResumes == 2
\* Number of handleScreening invocations that can be suspended at once.
MaxRuns == 2
\* Largest `retries` argument drawn for retryOperation in SpecRetry.
MaxRetriesArg == 3

\* ------------------------------------------------------- program constants
\* retryOperation(operation, retries = 2, delay = 1000)
DefaultRetries == 2
DefaultDelay == 1000

\* JavaScript null and undefined.
JsNull == "<null>"
JsUndefined == "<undefined>"

DocMime == "application/msword"
PngMime == "image/png"
PdfMime == "application/pdf"
DocxMime == "application/vnd.openxmlformats-officedocument.wordprocessingml.document"
TextMime == "text/plain"
MockBase64 == "MOCK_BASE64_CONTENT_FOR_DEMO_ONLY"

\* recommendation: "Strong Match" | "Potential Match" | "Weak Match" | "Not a Match"
Recommendations == {"Strong Match", "Potential Match", "Weak Match", "Not a Match"}

\* The fields of interface ScreeningResult the model carries.
ScreeningResultFields == {"candidateName", "email", "overallMatchScore", "recommendation"}

\* A value has the shape the type ScreeningResult declares.
IsScreeningResult(v) ==
    /\ DOMAIN v = ScreeningResultFields
    /\ v.recommendation \in Recommendations

AiProviders == {"gemini", "openai"}

\* A provider string that is neither of them.
OtherProvider == "mistral"

AI_MODELS ==
    [gemini |-> <<"gemini-2.5-flash", "gemini-3-pro-preview",
                  "gemini-flash-lite-latest", "gemini-1.5-pro">>,
     openai |-> <<"gpt-4o", "gpt-4o-mini", "gpt-4-turbo", "gpt-3.5-turbo">>]

\* ------------------------------------------------------------ error texts
MsgNoResumes == "Please upload or import at least one resume."
MsgNoJdText == "Please enter the Job Description text."
MsgNoJdFile == "Please upload a Job Description file."
MsgAllFailed == "Failed to process all resumes. Issues:"
MsgNoResults == "No results generated."
MsgCompletedWithIssues == "Completed with issues.\nFailed to process:"
MsgResumeMissing == "Resume file content is missing."
MsgNoJobDescription == "No Job Description provided."
MsgGeminiKeyMissing == "Gemini API Key missing in environment variables."
MsgOpenAiKeyMissing == "OpenAI API Key missing. Please configure OPENAI_API_KEY in backend/environment variables."
MsgEmptyDocx == "Empty DOCX"
MsgEmptyGemini == "Empty response from Gemini"
MsgEmptyOpenAi == "No response from OpenAI"
MsgOpenAiPdf == "OpenAI mode currently supports DOCX and Text files only. Please use Gemini for PDF resumes."
MsgOpenAiNoText == "Could not extract text from resume for OpenAI processing."
MsgSyntaxError == "SyntaxError: Unexpected token in JSON"
MsgNetwork == "Failed to fetch"

\* failedFiles.join(sep)
RECURSIVE join(_, _)
join(list, sep) ==
    IF list = <<>> THEN ""
    ELSE IF Len(list) = 1 THEN list[1]
    ELSE list[1] \o sep \o join(Tail(list), sep)

\* `${fileName} (${(e as Error).message})`
ManifestEntry(fileName, message) == fileName \o " (" \o message \o ")"

\* `Failed to process all resumes. Issues:\n${failedFiles.join('\n')}`
AllFailedMessage(failed) == MsgAllFailed \o "\n" \o join(failed, "\n")

\* `Completed with issues.\nFailed to process:\n- ${failedFiles.join('\n- ')}`
IssuesAlert(failed) == MsgCompletedWithIssues \o "\n- " \o join(failed, "\n- ")

\* ------------------------------------------------------------------ inputs
\* FileInput { file, base64, mimeType, source? }; `file` is the File's name.
FileInputOf(file, base64, mimeType, source) ==
    [file |-> file, base64 |-> base64, mimeType |-> mimeType, source |-> source]

\* useState<FileInput>({ file: null, base64: null, mimeType: '' })
EmptyFileInput == [file |-> JsNull, base64 |-> JsNull, mimeType |-> "", source |-> JsUndefined]

\* What FileUpload.processFile makes of a local file: the part of the data
\* URL after the comma ("" for a file of zero bytes), the file's type, no source.
TxtResume == FileInputOf("ann.txt", "B64(resume text)", TextMime, JsUndefined)
PdfResume == FileInputOf("bob.pdf", "B64(%PDF)", PdfMime, JsUndefined)
ZeroByteResume == FileInputOf("nil.txt", "", TextMime, JsUndefined)
\* A FileInput carrying the reserved marker (no picker of src/ builds one).
MockResume == FileInputOf("Jane_Doe.pdf", MockBase64, PdfMime, "sharepoint")

\* The other kinds of file the resume input accepts or is given: a .docx
\* with text and one without, a legacy .doc, an image, a file downloaded by
\* the SharePoint picker, and a local PDF whose stored content is the marker.
DocxResume == FileInputOf("cy.docx", "B64(PK docx)", DocxMime, JsUndefined)
EmptyDocxResume == FileInputOf("blank.docx", "B64(PK empty docx)", DocxMime, JsUndefined)
DocResume == FileInputOf("dee.doc", "B64(D0CF doc)", DocMime, JsUndefined)
ImageResume == FileInputOf("scan.png", "B64(PNG)", PngMime, JsUndefined)
SharePointResume == FileInputOf("eve.pdf", "B64(%PDF)", PdfMime, "sharepoint")
LocalMarkerResume == FileInputOf("mark.pdf", MockBase64, PdfMime, "local")

\* The resumes screenResume is called with, one kind at a time.
ScreenResumes ==
    {TxtResume, PdfResume, DocxResume, EmptyDocxResume, DocResume, ImageResume,
     ZeroByteResume, MockResume, SharePointResume, LocalMarkerResume}

\* Files the upload control puts in the queue.
LocalResumes == {TxtResume, ZeroByteResume}
\* FileInputs in the queue when handleScreening is called on a given state.
DirectResumes == {TxtResume, MockResume}

PdfJd == FileInputOf("jd.pdf", "B64(%PDF jd)", PdfMime, JsUndefined)
ZeroByteJd == FileInputOf("jd.txt", "", TextMime, JsUndefined)
TxtJd == FileInputOf("jd.txt", "B64(jd text)", TextMime, JsUndefined)
DocxJd == FileInputOf("jd.docx", "B64(PK docx)", DocxMime, JsUndefined)
\* The job-description documents screenResume is called with.
ScreenJdFiles == {PdfJd, TxtJd, DocxJd, ZeroByteJd}

\* What the job-description upload control sets: a file, or the cleared input.
JdFiles == {EmptyFileInput, PdfJd}
\* The job-description documents handleScreening is called with.
DirectJdFiles == {EmptyFileInput, PdfJd, ZeroByteJd}

\* Values of the job-description textarea: empty, blank, text.
JdTexts == {"", "  ", "Senior React Developer"}

\* s.trim() is the empty string.
TrimIsEmpty(s) == s \in {"", "  "}

\* !x for a string-or-null x.
Falsy(x) == x \in {JsNull, JsUndefined, ""}

\* process.env: the credentials are set, or they are not.
Envs == {[API_KEY |-> TRUE, OPENAI_API_KEY |-> TRUE],
         [API_KEY |-> FALSE, OPENAI_API_KEY |-> FALSE]}

\* ------------------------------------------------- what a provider returns
Ann == [candidateName |-> "Ann", email |-> "ann@example.com",
        overallMatchScore |-> 82, recommendation |-> "Strong Match"]
\* A complete object whose recommendation is outside the enumeration.
AnnMaybe == [candidateName |-> "Ann", email |-> "ann@example.com",
             overallMatchScore |-> 50, recommendation |-> "Maybe"]
\* An object with fields missing: {"candidateName": "Ann"}
AnnPartial == [candidateName |-> "Ann"]
\* The JSON text null.
JsonNull == [jsonNull |-> TRUE]

JsonValues == {Ann, AnnMaybe, AnnPartial, JsonNull}

\* Objects with a skillsAnalysis: one within the ranges, its skills not in
\* score order, and one whose scores the provider put outside 0..100.
Bea == [candidateName |-> "Bea", email |-> "bea@example.com",
        overallMatchScore |-> 70, recommendation |-> "Potential Match",
        skillsAnalysis |-> <<[skill |-> "SQL", score |-> 60],
                             [skill |-> "React", score |-> 90]>>]
BeaOver == [candidateName |-> "Bea", email |-> "bea@example.com",
            overallMatchScore |-> 150, recommendation |-> "Strong Match",
            skillsAnalysis |-> <<[skill |-> "SQL", score |-> 0 - 5],
                                 [skill |-> "React", score |-> 120]>>]

\* A complete result whose skills are already in score order.
Cal == [candidateName |-> "Cal", email |-> "cal@example.com",
        overallMatchScore |-> 90, recommendation |-> "Strong Match",
        skillsAnalysis |-> <<[skill |-> "Go", score |-> 80],
                             [skill |-> "SQL", score |-> 40]>>]

\* response.text / message.content: nothing, text that is not JSON, JSON text.
EmptyText == [kind |-> "empty"]
GarbageText == [kind |-> "garbage"]
JsonText(v) == [kind |-> "json", value |-> v]
ResponseTexts == {EmptyText, GarbageText} \cup {JsonText(v) : v \in JsonValues}

\* The call either rejects (network, HTTP or SDK error) or resolves with a text.
Rejected(message) == [kind |-> "rejected", message |-> message]
Resolved(text) == [kind |-> "resolved", text |-> text]
ProviderOutcomes == {Rejected(MsgNetwork)} \cup {Resolved(t) : t \in ResponseTexts}
\* Every answer above, and the objects with a skillsAnalysis.
ScreenOutcomes == ProviderOutcomes \cup {Resolved(JsonText(v)) : v \in {Bea, BeaOver}}
\* The answers with one kind of failure among them, the rejected call.
BatchOutcomes == {Rejected(MsgNetwork)} \cup {Resolved(JsonText(v)) : v \in JsonValues}

\* JSON.parse(text): throws on text that is not JSON, else the value, unchecked.
Threw(message) == [ok |-> FALSE, message |-> message]
Returned(value) == [ok |-> TRUE, value |-> value]
JSONparse(text) ==
    IF text.kind = "json" THEN Returned(text.value) ELSE Threw(MsgSyntaxError)

\* ------------------------------------------------------------------- state
VARIABLES
    \* App component state (useState)
    view, resumes, jdMode, jdText, jdFile, provider, selectedModel,
    loading, error, results, currentPage, shortlist, selectedResultIndex,
    \* the environment: process.env, the answers the provider can give, the
    \* text of the file the browser has downloaded last (empty: none), the
    \* text of the window.alert on screen, and the number of provider requests
    \* sent and not yet answered
    env, responses, downloaded, alerted, inFlight,
    \* one suspended handleScreening invocation per run id: where it is
    \* suspended, its locals i, newResults, failedFiles, and the arguments
    \* retries, delay of the retryOperation call it is inside
    pc, i, newResults, failedFiles, retries, delay,
    \* the errors the retryOperation calls made for the current item have
    \* caught, innermost last, and the request of the item's latest provider call
    caught, sent,
    \* history of the run: the retries argument of the outermost
    \* retryOperation call and the operation calls made for the current item,
    \* the provider requests the run has sent, and the input index behind
    \* each entry of newResults and of failedFiles
    budget, attempts, calls, resultOf, failedOf

appVars == <<view, resumes, jdMode, jdText, jdFile, provider, selectedModel,
             loading, error, results, currentPage>>
inputVars == <<resumes, jdMode, jdText, jdFile, provider, selectedModel>>
outputVars == <<view, loading, error, results, currentPage, alerted>>
envVars == <<env, responses, downloaded>>
pickVars == <<shortlist, selectedResultIndex>>
retryVars == <<retries, delay, budget, attempts, caught>>
itemVars == <<i, newResults, failedFiles, resultOf, failedOf>>
runVars == <<pc, i, newResults, failedFiles, retries, delay, caught, sent,
             budget, attempts, calls, resultOf, failedOf>>
vars == <<appVars, envVars, pickVars, alerted, inFlight, runVars>>

RunIds == 1..MaxRuns

\* No invocation of handleScreening is suspended in slot r.
Idle(r) == pc[r] = "idle"

\* The slot a new invocation takes: the lowest idle one.
FreeRun(r) == Idle(r) /\ \A q \in RunIds : q < r => ~Idle(q)

SeqsUpTo(S, n) == UNION {[1..k -> S] : k \in 0..n}

InitRuns ==
    /\ pc = [r \in RunIds |-> "idle"]
    /\ i = [r \in RunIds |-> 1]
    /\ newResults = [r \in RunIds |-> <<>>]
    /\ failedFiles = [r \in RunIds |-> <<>>]
    /\ retries = [r \in RunIds |-> DefaultRetries]
    /\ delay = [r \in RunIds |-> DefaultDelay]
    /\ budget = [r \in RunIds |-> DefaultRetries]
    /\ attempts = [r \in RunIds |-> 0]
    /\ calls = [r \in RunIds |-> 0]
    /\ caught = [r \in RunIds |-> <<>>]
    /\ sent = [r \in RunIds |-> JsNull]
    /\ resultOf = [r \in RunIds |-> <<>>]
    /\ failedOf = [r \in RunIds |-> <<>>]
    /\ inFlight = 0

\* The App as first rendered: the useState initial values.
Init ==
    /\ view = "INPUT"
    /\ resumes = <<>>
    /\ jdMode = "TEXT"
    /\ jdText = ""
    /\ jdFile = EmptyFileInput
    /\ provider = "gemini"
    /\ selectedModel = AI_MODELS.gemini[1]
    /\ loading = FALSE
    /\ error = JsNull
    /\ results = <<>>
    /\ currentPage = 1
    /\ shortlist = <<>>
    /\ selectedResultIndex = JsNull
    /\ env \in Envs
    /\ responses = BatchOutcomes
    /\ downloaded = <<>>
    /\ alerted = JsNull
    /\ InitRuns

\* ------------------------------------------------------------ screenResume
\* A test that looks at the provenance alone.
IsDemoBySource(resume) == resume.source = "sharepoint"

\* resume.source === 'sharepoint' && resume.base64 === "MOCK_BASE64_CONTENT_FOR_DEMO_ONLY"
IsDemo(resume) == resume.source = "sharepoint" /\ resume.base64 = MockBase64

\* window.atob(base64) on the contents the inputs carry.
atob(base64) ==
    CASE base64 = "B64(resume text)" -> "resume text"
      [] base64 = "B64(%PDF)" -> "%PDF-1.7 ..."
      [] base64 = "B64(%PDF jd)" -> "%PDF-1.7 jd ..."
      [] base64 = "B64(jd text)" -> "jd text"
      [] base64 = "B64(PK docx)" -> "PK docx bytes"
      [] base64 = "B64(PK empty docx)" -> "PK empty docx bytes"
      [] base64 = "B64(D0CF doc)" -> "D0CF doc bytes"
      [] base64 = "B64(PNG)" -> "PNG bytes"
      [] OTHER -> ""

\* extractTextFromDocx: the document's raw text, "" when mammoth throws.
extractTextFromDocx(base64) ==
    IF base64 = "B64(PK docx)" THEN "docx text" ELSE ""

\* jobDescriptionFile as handleScreening passes it:
\* jdMode === JobDescriptionMode.FILE ? jdFile : null
NullFileInput == [file |-> JsNull, base64 |-> JsNull, mimeType |-> JsNull, source |-> JsNull]
jobDescriptionFile == IF jdMode = "FILE" THEN jdFile ELSE NullFileInput

\* The job-description context screenResume prepares before it retries
\* anything: the text after "Job Description Context:\n", or the throw.
jdContext(jobDescriptionText, jdf, prov) ==
    IF jdf # NullFileInput /\ ~Falsy(jdf.base64)
    THEN IF jdf.mimeType = DocxMime
         THEN Returned(extractTextFromDocx(jdf.base64))
         ELSE IF prov = "gemini"
              THEN Returned("(See attached Job Description document)")
              ELSE IF jdf.mimeType = PdfMime
                   THEN Returned("(Attached JD is a PDF - Please copy text for better results)")
                   ELSE Returned(atob(jdf.base64))
    ELSE IF ~TrimIsEmpty(jobDescriptionText)
         THEN Returned(jobDescriptionText)
         ELSE Threw(MsgNoJobDescription)

\* An environment in which every credential counts as set.
apiKeyAlwaysSet(prov) == TRUE

\* process.env.API_KEY for Gemini, process.env.OPENAI_API_KEY for OpenAI.
apiKey(prov) == IF prov = "gemini" THEN env.API_KEY ELSE env.OPENAI_API_KEY

\* The synchronous part of the operation screenResume retries, up to the
\* provider call: the request to send, or what it throws before sending.
request(resume, jdf, ctx, modelName, prov) ==
    IF prov = "gemini"
    THEN IF ~apiKey(prov) THEN Threw(MsgGeminiKeyMissing)
         ELSE IF resume.mimeType = DocxMime /\ TrimIsEmpty(extractTextFromDocx(resume.base64))
         THEN Threw(MsgEmptyDocx)
         ELSE Returned(
            [model |-> modelName,
             parts |->
                (IF resume.mimeType = DocxMime
                 THEN <<[text |-> "RESUME TEXT CONTENT:\n" \o extractTextFromDocx(resume.base64)]>>
                 ELSE <<[inlineData |-> [mimeType |-> resume.mimeType, data |-> resume.base64]]>>)
                \o (IF jdf # NullFileInput /\ jdf.mimeType = PdfMime
                    THEN <<[inlineData |-> [mimeType |-> jdf.mimeType, data |-> jdf.base64]]>>
                    ELSE <<>>)
                \o <<[text |-> ctx]>>])
    ELSE IF prov = "openai"
    THEN IF ~apiKey(prov) THEN Threw(MsgOpenAiKeyMissing)
         ELSE IF resume.mimeType = PdfMime THEN Threw(MsgOpenAiPdf)
         ELSE LET resumeTextContent ==
                    IF resume.mimeType = DocxMime
                    THEN extractTextFromDocx(resume.base64)
                    ELSE atob(resume.base64)
              IN IF TrimIsEmpty(resumeTextContent) THEN Threw(MsgOpenAiNoText)
                 ELSE Returned(
                    [model |-> modelName,
                     messages |-> <<[role |-> "system", content |-> ctx],
                                    [role |-> "user",
                                     content |-> "Here is the resume content:\n\n" \o resumeTextContent]>>])
    ELSE Threw("Unsupported provider: " \o prov)

\* What the operation makes of the provider's answer: the parsed value,
\* returned as a ScreeningResult without a check, or the throw.
parseResponse(outcome, prov) ==
    IF outcome.kind = "rejected" THEN Threw(outcome.message)
    ELSE IF outcome.text.kind = "empty"
         THEN Threw(IF prov = "gemini" THEN MsgEmptyGemini ELSE MsgEmptyOpenAi)
         ELSE JSONparse(outcome.text)

\* Math.floor(Math.random() * 40): the draws the model takes.
MockRandoms == {0, 39}

\* fileName.replace(/\.(pdf|docx)$/, '').replace(/_/g, ' ')
mockCandidateName(fileName) ==
    CASE fileName = "Jane_Doe.pdf" -> "Jane Doe"
      [] fileName = "bob.pdf" -> "bob"
      [] OTHER -> fileName

generateMockResult(fileName, random) ==
    [candidateName |-> mockCandidateName(fileName),
     email |-> "demo.candidate@example.com",
     overallMatchScore |-> random + 60,
     skillsAnalysis |-> <<[skill |-> "React", score |-> 85],
                          [skill |-> "TypeScript", score |-> 75],
                          [skill |-> "Cloud Platforms", score |-> 60]>>,
     recommendation |-> "Potential Match"]

\* ---------------------------------------------------------- retryOperation
\* A retry test that gives up one attempt early.
shouldRetryOffByOne(n) == n > 1

\* if (retries > 0)
shouldRetry(n) == n > 0

\* A retry that waits as long every time.
nextDelayFixed(d) == d

\* retryOperation(operation, retries - 1, delay * 2)
nextDelay(d) == d * 2

\* A wrapper that reports the error of its first attempt.
rethrownFirst(errors) == errors[1]

\* throw error: the innermost call throws what it has caught, and every
\* outer call returns the inner call's promise as it is.
rethrown(errors) == errors[Len(errors)]

\* A catch that lets every error but a network one escape.
retryCatchesNetworkOnly(message) == message = MsgNetwork

\* catch (error): whatever operation() throws is caught.
retryCatches(message) == TRUE

\* ---------------------------------------------------------- handleScreening
\* The checks without the one on the queue.
preflightErrorNoQueueCheck ==
    IF jdMode = "TEXT" /\ TrimIsEmpty(jdText) THEN MsgNoJdText
    ELSE IF jdMode = "FILE" /\ Falsy(jdFile.file) THEN MsgNoJdFile
    ELSE JsNull

\* The checks without those on the job description.
preflightErrorNoJdCheck ==
    IF Len(resumes) = 0 THEN MsgNoResumes ELSE JsNull

\* The checks before setLoading(true): the message of the first that fails.
preflightError ==
    IF Len(resumes) = 0 THEN MsgNoResumes
    ELSE IF jdMode = "TEXT" /\ TrimIsEmpty(jdText) THEN MsgNoJdText
    ELSE IF jdMode = "FILE" /\ Falsy(jdFile.file) THEN MsgNoJdFile
    ELSE JsNull

\* A button the loading state does not disable.
startDisabledIgnoresLoading ==
    Len(resumes) = 0 \/ (Falsy(jdText) /\ Falsy(jdFile.file))

\* disabled={loading || resumes.length === 0 || (!jdText && !jdFile.file)}
startDisabled ==
    loading \/ Len(resumes) = 0 \/ (Falsy(jdText) /\ Falsy(jdFile.file))

\* currentResume.file?.name || `Resume ${i+1}` (i counts from 1 here)
fileNameOf(resume, idx) ==
    IF Falsy(resume.file) THEN "Resume " \o ToString(idx) ELSE resume.file

\* A loop body whose result lands in front of the earlier ones.
pushResultInFront(list, analysis) == <<analysis>> \o list

\* newResults.push(analysis)
pushResult(list, analysis) == Append(list, analysis)

\* A catch block that swallows the failure without listing it.
pushFailedNothing(list, entry) == list

\* failedFiles.push(entry)
pushFailed(list, entry) == Append(list, entry)

\* A loop that takes the failed item up again.
indexAfterCatchStays(idx, n) == idx

\* A loop the first failure ends.
indexAfterCatchLeavesLoop(idx, n) == n + 1

\* The index the for loop goes on with after the catch of item idx of n.
indexAfterCatch(idx, n) == idx + 1

\* A loop that may end once its first item is done.
loopExitedEarly(idx, n) == idx > 1

\* A loop whose condition never turns false.
loopNeverExited(idx, n) == FALSE

\* for (let i = 0; i < resumes.length; i++): the condition has turned false.
loopExited(idx, n) == idx > n

\* A check that fails the batch as soon as one item has failed.
anyItemFailed(res, failed) == Len(failed) > 0

\* if (newResults.length === 0 && failedFiles.length > 0)
allItemsFailed(res, failed) == Len(res) = 0 /\ Len(failed) > 0

\* The try block of the loop body completes: the result is collected.
itemSucceeded(r, analysis) ==
    /\ newResults' = [newResults EXCEPT ![r] = pushResult(@, analysis)]
    /\ resultOf' = [resultOf EXCEPT ![r] = pushResult(@, i[r])]
    /\ i' = [i EXCEPT ![r] = @ + 1]
    /\ pc' = [pc EXCEPT ![r] = "loop"]
    /\ UNCHANGED <<failedFiles, failedOf>>

\* The catch block of the loop body: the failure is listed, the loop goes on.
itemFailed(r, message) ==
    /\ failedFiles' = [failedFiles EXCEPT
            ![r] = pushFailed(@, ManifestEntry(fileNameOf(resumes[i[r]], i[r]), message))]
    /\ failedOf' = [failedOf EXCEPT ![r] = pushFailed(@, i[r])]
    /\ i' = [i EXCEPT ![r] = indexAfterCatch(@, Len(resumes))]
    /\ pc' = [pc EXCEPT ![r] = "loop"]
    /\ UNCHANGED <<newResults, resultOf>>

\* The catch block of retryOperation: wait and retry, or rethrow to the loop.
operationThrew(r, message) ==
    LET errors == Append(caught[r], message)
    IN /\ caught' = [caught EXCEPT ![r] = errors]
       /\ IF retryCatches(message) /\ shouldRetry(retries[r])
          THEN /\ pc' = [pc EXCEPT ![r] = "backoff"]
               /\ UNCHANGED itemVars
          ELSE itemFailed(r, rethrown(errors))

\* One loop iteration up to its first suspension: screenResume is called,
\* which takes the demo path, throws before retrying, or calls retryOperation.
screenResume(r) ==
    /\ pc[r] = "loop"
    /\ i[r] <= Len(resumes)
    /\ retries' = [retries EXCEPT ![r] = DefaultRetries]
    /\ delay' = [delay EXCEPT ![r] = DefaultDelay]
    /\ budget' = [budget EXCEPT ![r] = DefaultRetries]
    /\ attempts' = [attempts EXCEPT ![r] = 0]
    /\ caught' = [caught EXCEPT ![r] = <<>>]
    /\ sent' = [sent EXCEPT ![r] = JsNull]
    /\ LET resume == resumes[i[r]]
           ctx == jdContext(jdText, jobDescriptionFile, provider)
       IN IF IsDemo(resume)
          THEN pc' = [pc EXCEPT ![r] = "demoDelay"] /\ UNCHANGED itemVars
          ELSE IF Falsy(resume.base64) THEN itemFailed(r, MsgResumeMissing)
          ELSE IF ~ctx.ok THEN itemFailed(r, ctx.message)
          ELSE pc' = [pc EXCEPT ![r] = "operation"] /\ UNCHANGED itemVars
    /\ UNCHANGED <<appVars, envVars, pickVars, alerted, inFlight, calls>>

\* setTimeout(resolve, 1500) of the demo path fires.
demoDelayElapsed(r) ==
    /\ pc[r] = "demoDelay"
    /\ \E random \in MockRandoms :
        itemSucceeded(r, generateMockResult(
            IF Falsy(resumes[i[r]].file) THEN "Candidate" ELSE resumes[i[r]].file, random))
    /\ UNCHANGED <<appVars, envVars, pickVars, alerted, inFlight, calls, sent, retryVars>>

\* retryOperation calls operation(): it throws before the provider call, or
\* sends the request and suspends.
operation(r) ==
    /\ pc[r] = "operation"
    /\ attempts' = [attempts EXCEPT ![r] = @ + 1]
    /\ LET ctx == jdContext(jdText, jobDescriptionFile, provider)
           req == request(resumes[i[r]], jobDescriptionFile, ctx.value, selectedModel, provider)
       IN IF req.ok
          THEN /\ inFlight' = inFlight + 1
               /\ calls' = [calls EXCEPT ![r] = @ + 1]
               /\ sent' = [sent EXCEPT ![r] = req.value]
               /\ pc' = [pc EXCEPT ![r] = "awaiting"]
               /\ UNCHANGED <<itemVars, caught>>
          ELSE /\ operationThrew(r, req.message)
               /\ UNCHANGED <<inFlight, calls, sent>>
    /\ UNCHANGED <<appVars, envVars, pickVars, alerted, retries, delay, budget>>

\* The provider call settles: the parsed value is the item's result, or the
\* attempt has failed.
providerResponds(r) ==
    /\ pc[r] = "awaiting"
    /\ inFlight' = inFlight - 1
    /\ \E outcome \in responses :
        LET res == parseResponse(outcome, provider)
        IN IF res.ok THEN itemSucceeded(r, res.value) /\ UNCHANGED caught
           ELSE operationThrew(r, res.message)
    /\ UNCHANGED <<appVars, envVars, pickVars, alerted, calls, sent,
                   retries, delay, budget, attempts>>

\* setTimeout(resolve, delay) of retryOperation fires: the recursive call.
backoffElapsed(r) ==
    /\ pc[r] = "backoff"
    /\ retries' = [retries EXCEPT ![r] = @ - 1]
    /\ delay' = [delay EXCEPT ![r] = nextDelay(@)]
    /\ pc' = [pc EXCEPT ![r] = "operation"]
    /\ UNCHANGED <<appVars, envVars, pickVars, alerted, inFlight, calls, sent,
                   budget, attempts, caught, itemVars>>

\* handleScreening returns: its locals are gone.
returned(r) ==
    /\ pc' = [pc EXCEPT ![r] = "idle"]
    /\ i' = [i EXCEPT ![r] = 1]
    /\ newResults' = [newResults EXCEPT ![r] = <<>>]
    /\ failedFiles' = [failedFiles EXCEPT ![r] = <<>>]
    /\ resultOf' = [resultOf EXCEPT ![r] = <<>>]
    /\ failedOf' = [failedOf EXCEPT ![r] = <<>>]
    /\ calls' = [calls EXCEPT ![r] = 0]
    /\ sent' = [sent EXCEPT ![r] = JsNull]

\* No retryOperation call is active in run r.
retryReturned(r) ==
    /\ retries' = [retries EXCEPT ![r] = DefaultRetries]
    /\ delay' = [delay EXCEPT ![r] = DefaultDelay]
    /\ budget' = [budget EXCEPT ![r] = DefaultRetries]
    /\ attempts' = [attempts EXCEPT ![r] = 0]
    /\ caught' = [caught EXCEPT ![r] = <<>>]

\* The loop has visited every resume: the batch fails as a whole (the outer
\* catch), or the publication of the results is scheduled (setTimeout 500).
afterLoop(r) ==
    /\ pc[r] = "loop"
    /\ loopExited(i[r], Len(resumes))
    /\ retryReturned(r)
    /\ IF allItemsFailed(newResults[r], failedFiles[r])
       THEN /\ loading' = FALSE
            /\ error' = AllFailedMessage(failedFiles[r])
            /\ returned(r)
       ELSE IF Len(newResults[r]) = 0
       THEN /\ loading' = FALSE
            /\ error' = MsgNoResults
            /\ returned(r)
       ELSE /\ pc' = [pc EXCEPT ![r] = "publish"]
            /\ UNCHANGED <<loading, error, itemVars, calls, sent>>
    /\ UNCHANGED <<view, inputVars, results, currentPage, envVars, pickVars, alerted, inFlight>>

\* The 500 ms timer fires: the results are shown, and the failures, if any,
\* are listed in a window.alert, which stays up until it is dismissed.
publishResults(r) ==
    /\ pc[r] = "publish"
    /\ results' = newResults[r]
    /\ currentPage' = 1
    /\ loading' = FALSE
    /\ view' = "CARD"
    /\ alerted' = IF Len(failedFiles[r]) > 0 THEN IssuesAlert(failedFiles[r]) ELSE alerted
    /\ returned(r)
    /\ UNCHANGED <<inputVars, error, envVars, pickVars, inFlight, retryVars>>

\* The user closes the alert.
alertDismissed ==
    /\ alerted # JsNull
    /\ alerted' = JsNull
    /\ UNCHANGED <<appVars, envVars, pickVars, inFlight, runVars>>

\* handleScreening up to its first suspension: a failed check sets the error
\* and returns; otherwise the run starts in a free slot.
handleScreening ==
    IF preflightError # JsNull
    THEN /\ error' = preflightError
         /\ UNCHANGED <<view, inputVars, loading, results, currentPage,
                        envVars, pickVars, alerted, inFlight, runVars>>
    ELSE /\ \E r \in RunIds :
            /\ FreeRun(r)
            /\ pc' = [pc EXCEPT ![r] = "loop"]
            /\ i' = [i EXCEPT ![r] = 1]
            /\ newResults' = [newResults EXCEPT ![r] = <<>>]
            /\ failedFiles' = [failedFiles EXCEPT ![r] = <<>>]
            /\ resultOf' = [resultOf EXCEPT ![r] = <<>>]
            /\ failedOf' = [failedOf EXCEPT ![r] = <<>>]
            /\ calls' = [calls EXCEPT ![r] = 0]
            /\ sent' = [sent EXCEPT ![r] = JsNull]
         /\ loading' = TRUE
         /\ error' = JsNull
         /\ UNCHANGED <<view, inputVars, results, currentPage,
                        envVars, pickVars, alerted, inFlight, retryVars>>

\* -------------------------------------------------------------- UI events
\* The INPUT view's controls.  While loading, the overlay (fixed inset-0,
\* z-50) covers them; the Start Analysis button keeps the focus it got from
\* the click that started the run, so only its disabled attribute guards it.
InputControls == view = "INPUT" /\ ~loading /\ alerted = JsNull

\* onClick={handleScreening} of the Start Analysis button.
clickStartAnalysis ==
    /\ view = "INPUT"
    /\ ~startDisabled
    /\ handleScreening

\* onFilesAdded={(newFiles) => setResumes(prev => [...prev, ...newFiles])}
onFilesAdded ==
    /\ InputControls
    /\ Len(resumes) < MaxResumes
    /\ \E f \in LocalResumes : resumes' = Append(resumes, f)
    /\ UNCHANGED <<view, jdMode, jdText, jdFile, provider, selectedModel,
                   outputVars, envVars, pickVars, inFlight, runVars>>

\* setResumes(prev => prev.filter((_, i) => i !== index))
handleRemoveResume ==
    /\ InputControls
    /\ \E index \in 1..Len(resumes) :
        resumes' = SubSeq(resumes, 1, index - 1) \o SubSeq(resumes, index + 1, Len(resumes))
    /\ UNCHANGED <<view, jdMode, jdText, jdFile, provider, selectedModel,
                   outputVars, envVars, pickVars, inFlight, runVars>>

\* Clear All: setResumes([])
clearAllResumes ==
    /\ InputControls
    /\ Len(resumes) > 0
    /\ resumes' = <<>>
    /\ UNCHANGED <<view, jdMode, jdText, jdFile, provider, selectedModel,
                   outputVars, envVars, pickVars, inFlight, runVars>>

setJdMode ==
    /\ InputControls
    /\ \E m \in {"TEXT", "FILE"} : m # jdMode /\ jdMode' = m
    /\ UNCHANGED <<view, resumes, jdText, jdFile, provider, selectedModel,
                   outputVars, envVars, pickVars, inFlight, runVars>>

\* onChange={(e) => setJdText(e.target.value)}, shown in TEXT mode
setJdText ==
    /\ InputControls
    /\ jdMode = "TEXT"
    /\ \E t \in JdTexts : t # jdText /\ jdText' = t
    /\ UNCHANGED <<view, resumes, jdMode, jdFile, provider, selectedModel,
                   outputVars, envVars, pickVars, inFlight, runVars>>

\* onFileChange={setJdFile}, shown in FILE mode: a file chosen, or cleared
setJdFile ==
    /\ InputControls
    /\ jdMode = "FILE"
    /\ \E f \in JdFiles : f # jdFile /\ jdFile' = f
    /\ UNCHANGED <<view, resumes, jdMode, jdText, provider, selectedModel,
                   outputVars, envVars, pickVars, inFlight, runVars>>

\* A provider change that keeps the model selected before it.
modelKept(newProvider, current) == current

\* AI_MODELS[newProvider][0].id
defaultModel(newProvider, current) == AI_MODELS[newProvider][1]

\* handleProviderChange(newProvider), from the provider buttons
handleProviderChange ==
    /\ InputControls
    /\ \E newProvider \in AiProviders :
        /\ newProvider # provider
        /\ provider' = newProvider
        /\ selectedModel' = defaultModel(newProvider, selectedModel)
    /\ UNCHANGED <<view, resumes, jdMode, jdText, jdFile,
                   outputVars, envVars, pickVars, inFlight, runVars>>

\* onChange={(e) => setSelectedModel(e.target.value)}: the options are the
\* models of the selected provider.
setSelectedModel ==
    /\ InputControls
    /\ \E k \in DOMAIN AI_MODELS[provider] :
        /\ AI_MODELS[provider][k] # selectedModel
        /\ selectedModel' = AI_MODELS[provider][k]
    /\ UNCHANGED <<view, resumes, jdMode, jdText, jdFile, provider,
                   outputVars, envVars, pickVars, inFlight, runVars>>

\* The error banner's close button: setError(null)
dismissError ==
    /\ InputControls
    /\ error # JsNull
    /\ error' = JsNull
    /\ UNCHANGED <<view, inputVars, loading, results, currentPage,
                   envVars, pickVars, alerted, inFlight, runVars>>

\* New Screen, shown in the CARD view when there are results.
handleReset ==
    /\ view = "CARD" /\ Len(results) > 0 /\ ~loading /\ alerted = JsNull
    /\ results' = <<>>
    /\ resumes' = <<>>
    /\ currentPage' = 1
    /\ jdText' = ""
    /\ jdFile' = EmptyFileInput
    /\ error' = JsNull
    /\ view' = "INPUT"
    /\ selectedResultIndex' = JsNull
    /\ UNCHANGED <<jdMode, provider, selectedModel, loading, envVars, shortlist, alerted,
                   inFlight, runVars>>

\* --------------------------------------------------------- specifications
runStep(r) ==
    \/ screenResume(r)
    \/ operation(r)
    \/ providerResponds(r)
    \/ backoffElapsed(r)
    \/ afterLoop(r)
    \/ publishResults(r)

\* The App driven through its rendered controls.
Next ==
    \/ onFilesAdded
    \/ handleRemoveResume
    \/ clearAllResumes
    \/ setJdMode
    \/ setJdText
    \/ setJdFile
    \/ handleProviderChange
    \/ setSelectedModel
    \/ dismissError
    \/ clickStartAnalysis
    \/ handleReset
    \/ alertDismissed
    \/ \E r \in RunIds : runStep(r)

Spec == Init /\ [][Next]_vars

\* handleScreening called once on a given component state: the inputs are
\* drawn, and stay as drawn.  The shortlist is empty, or holds a candidate
\* of an earlier batch (New Screen keeps the shortlist).
InitDirect ==
    /\ view = "INPUT"
    /\ resumes \in SeqsUpTo(DirectResumes, MaxResumes)
    /\ jdMode \in {"TEXT", "FILE"}
    /\ jdText \in JdTexts
    /\ jdFile \in DirectJdFiles
    /\ provider \in AiProviders
    /\ selectedModel = AI_MODELS[provider][1]
    /\ loading = FALSE
    /\ error = JsNull
    /\ results = <<>>
    /\ currentPage = 1
    /\ shortlist \in {<<>>, <<Cal>>}
    /\ selectedResultIndex = JsNull
    /\ env \in Envs
    /\ responses = BatchOutcomes
    /\ downloaded = <<>>
    /\ alerted = JsNull
    /\ InitRuns

\* The call, made on the state as drawn: nothing has run yet.
callHandleScreening ==
    /\ \A r \in RunIds : Idle(r)
    /\ view = "INPUT" /\ error = JsNull
    /\ handleScreening

NextDirect ==
    \/ callHandleScreening
    \/ alertDismissed
    \/ \E r \in RunIds : runStep(r) \/ demoDelayElapsed(r)

SpecDirect == InitDirect /\ [][NextDirect]_vars

\* The same call, every provider call and every timer eventually settling:
\* a continuation that is ready runs.
FairDirect ==
    \A r \in RunIds : WF_vars(runStep(r)) /\ WF_vars(demoDelayElapsed(r))

\* The states of InitDirect with an empty shortlist.
InitDirectFair == InitDirect /\ shortlist = <<>>

SpecDirectFair == InitDirectFair /\ [][NextDirect]_vars /\ FairDirect

\* handleScreening called on a queue of one resume of any kind (or of a text
\* resume followed by an image), with any job description, for any provider
\* string, the provider answering with any of ScreenOutcomes.
InitScreen ==
    /\ view = "INPUT"
    /\ resumes \in {<<x>> : x \in ScreenResumes} \cup {<<TxtResume, ImageResume>>}
    /\ jdMode \in {"TEXT", "FILE"}
    /\ jdText \in {"", "Senior React Developer"}
    /\ jdFile \in ScreenJdFiles \cup {EmptyFileInput}
    /\ provider \in AiProviders \cup {OtherProvider}
    /\ selectedModel = IF provider \in AiProviders THEN AI_MODELS[provider][1]
                                                  ELSE "mistral-large"
    /\ loading = FALSE
    /\ error = JsNull
    /\ results = <<>>
    /\ currentPage = 1
    /\ shortlist = <<>>
    /\ selectedResultIndex = JsNull
    /\ env \in Envs
    /\ responses = ScreenOutcomes
    /\ downloaded = <<>>
    /\ alerted = JsNull
    /\ InitRuns

SpecScreen == InitScreen /\ [][NextDirect]_vars

\* retryOperation(operation, retries, delay) called with a drawn retries
\* argument on the operation of screenResume, for the first resume of a run.
InitRetry ==
    /\ view = "INPUT"
    /\ resumes \in SeqsUpTo({TxtResume}, MaxResumes) \ {<<>>}
    /\ jdMode = "TEXT"
    /\ jdText = "Senior React Developer"
    /\ jdFile = EmptyFileInput
    /\ provider \in AiProviders
    /\ selectedModel = AI_MODELS[provider][1]
    /\ loading = TRUE
    /\ error = JsNull
    /\ results = <<>>
    /\ currentPage = 1
    /\ shortlist = <<>>
    /\ selectedResultIndex = JsNull
    /\ env \in Envs
    /\ responses = ProviderOutcomes
    /\ downloaded = <<>>
    /\ alerted = JsNull
    /\ inFlight = 0
    /\ pc = [r \in RunIds |-> IF r = 1 THEN "operation" ELSE "idle"]
    /\ i = [r \in RunIds |-> 1]
    /\ newResults = [r \in RunIds |-> <<>>]
    /\ failedFiles = [r \in RunIds |-> <<>>]
    /\ resultOf = [r \in RunIds |-> <<>>]
    /\ failedOf = [r \in RunIds |-> <<>>]
    /\ calls = [r \in RunIds |-> 0]
    /\ caught = [r \in RunIds |-> <<>>]
    /\ sent = [r \in RunIds |-> JsNull]
    /\ attempts = [r \in RunIds |-> 0]
    /\ delay = [r \in RunIds |-> DefaultDelay]
    /\ \E n \in 0..MaxRetriesArg :
        /\ retries = [r \in RunIds |-> IF r = 1 THEN n ELSE DefaultRetries]
        /\ budget = retries

NextRetry ==
    \E r \in RunIds : operation(r) \/ providerResponds(r) \/ backoffElapsed(r)

SpecRetry == InitRetry /\ [][NextRetry]_vars

\* ------------------------------------------------------------ result views
\* A second result for the candidate of Bea (the same name and email, from
\* another file of theirs), with the same score.
BeaAgain == [candidateName |-> "Bea", email |-> "bea@example.com",
             overallMatchScore |-> 70, recommendation |-> "Weak Match",
             skillsAnalysis |-> <<[skill |-> "React", score |-> 50]>>]

\* The results a finished batch has published: complete ones, each with a
\* skillsAnalysis, no object twice.
ViewResults == {Bea, BeaAgain, Cal, generateMockResult("Jane_Doe.pdf", 0)}

Distinct(list) == \A j, k \in DOMAIN list : j # k => list[j] # list[k]

itemsPerPage == 6

\* results.slice(indexOfFirstItem, indexOfLastItem), as indices from 1
currentResults ==
    {k \in DOMAIN results :
        (currentPage - 1) * itemsPerPage < k /\ k <= currentPage * itemsPerPage}

\* Array.prototype.sort((a, b) => b.score - a.score): stable, descending.
insertByScore(sorted, x) ==
    LET c == Cardinality({k \in DOMAIN sorted : sorted[k].score >= x.score})
    IN SubSeq(sorted, 1, c) \o <<x>> \o SubSeq(sorted, c + 1, Len(sorted))

RECURSIVE sortByScore(_)
sortByScore(list) ==
    IF list = <<>> THEN <<>>
    ELSE insertByScore(sortByScore(SubSeq(list, 1, Len(list) - 1)), list[Len(list)])

\* result.skillsAnalysis.sort(...) of CandidateCard: the array of the result
\* object itself is sorted.
sortedInPlace(result) == [result EXCEPT !.skillsAnalysis = sortByScore(@)]

\* BatchSummary: { ...r, originalIndex: i }, indices from 1
withOriginalIndex(r, idx) ==
    [f \in DOMAIN r \cup {"originalIndex"} |-> IF f = "originalIndex" THEN idx ELSE r[f]]

\* sort((a, b) => b.overallMatchScore - a.overallMatchScore): stable, descending.
insertByMatchScore(sorted, x) ==
    LET c == Cardinality({k \in DOMAIN sorted :
                            sorted[k].overallMatchScore >= x.overallMatchScore})
    IN SubSeq(sorted, 1, c) \o <<x>> \o SubSeq(sorted, c + 1, Len(sorted))

RECURSIVE sortByMatchScore(_)
sortByMatchScore(list) ==
    IF list = <<>> THEN <<>>
    ELSE insertByMatchScore(sortByMatchScore(SubSeq(list, 1, Len(list) - 1)), list[Len(list)])

\* [...results].map((r, i) => ({ ...r, originalIndex: i })).sort(...)
sortedResults(list) ==
    sortByMatchScore([k \in DOMAIN list |-> withOriginalIndex(list[k], k)])

\* The ranking's own page of 5 rows; its page number stays 1 as long as the
\* results are no more than 5.
rankingPerPage == 5
paginatedResults(list) ==
    SubSeq(sortedResults(list), 1,
           IF Len(list) < rankingPerPage THEN Len(list) ELSE rankingPerPage)

\* The results array once BatchSummary has rendered: the ranking has sorted
\* a copy ([...results]), and the array is as it was.
afterRanking(list) == list

\* A Details button that opens the result at the row's place in the ranking.
detailsIndexOfRow(list, row) == row

\* onClick={() => onViewDetail(result.originalIndex)} of a ranked row
detailsIndex(list, row) == paginatedResults(list)[row].originalIndex

\* The cards of the current page have been rendered.
Rendered ==
    view = "CARD" => \A k \in currentResults : results[k] = sortedInPlace(results[k])

\* React renders the CARD view: BatchSummary, then one CandidateCard per
\* result of the page.
\* The shortlist holds the same objects, so its entries change with them.
renderCandidateCards ==
    /\ view = "CARD" /\ ~Rendered
    /\ results' = [k \in DOMAIN results |->
            IF k \in currentResults THEN sortedInPlace(afterRanking(results)[k])
                                    ELSE afterRanking(results)[k]]
    /\ shortlist' = [k \in DOMAIN shortlist |->
            IF \E j \in currentResults : results[j] = shortlist[k]
            THEN sortedInPlace(shortlist[k]) ELSE shortlist[k]]
    /\ UNCHANGED <<view, inputVars, loading, error, currentPage, selectedResultIndex,
                   envVars, alerted, inFlight, runVars>>

\* The controls of the result views: what is on screen has been rendered,
\* and no alert is up.
ViewControls == ~loading /\ alerted = JsNull /\ Rendered

\* onViewDetail of a card (its globalIndex) or of a row of the ranking:
\* setSelectedResultIndex(index); setView('DETAIL')
onViewDetail ==
    /\ ViewControls /\ view = "CARD"
    /\ \/ \E index \in currentResults : selectedResultIndex' = index
       \/ \E row \in DOMAIN paginatedResults(results) :
            selectedResultIndex' = detailsIndex(results, row)
    /\ view' = "DETAIL"
    /\ UNCHANGED <<inputVars, loading, error, results, currentPage, shortlist,
                   envVars, alerted, inFlight, runVars>>

\* onBack of the detail, table and shortlist views: setView('CARD')
onBack ==
    /\ ViewControls /\ view \in {"DETAIL", "TABLE", "SHORTLIST"}
    /\ view' = "CARD"
    /\ UNCHANGED <<inputVars, loading, error, results, currentPage, pickVars,
                   envVars, alerted, inFlight, runVars>>

\* Data Table (shown with the cards) and Shortlist (in the navbar, which
\* every view but the detail view shows).
setView ==
    /\ ViewControls
    /\ \/ view = "CARD" /\ Len(results) > 0 /\ view' = "TABLE"
       \/ view \in {"INPUT", "CARD", "TABLE"} /\ view' = "SHORTLIST"
    /\ UNCHANGED <<inputVars, loading, error, results, currentPage, pickVars,
                   envVars, alerted, inFlight, runVars>>

\* handleReject(index) from a card, the confirm accepted:
\* setResults(prev => prev.filter((_, i) => i !== index))
handleReject ==
    /\ ViewControls /\ view = "CARD"
    /\ \E index \in currentResults :
        results' = SubSeq(results, 1, index - 1) \o SubSeq(results, index + 1, Len(results))
    /\ UNCHANGED <<view, inputVars, loading, error, currentPage, pickVars,
                   envVars, alerted, inFlight, runVars>>

\* A test that looks for the candidate object itself.
existsSameObject(list, candidate) == \E k \in DOMAIN list : list[k] = candidate

\* prev.some(c => c.candidateName === candidate.candidateName && c.email === candidate.email)
exists(list, candidate) ==
    \E k \in DOMAIN list :
        list[k].candidateName = candidate.candidateName /\ list[k].email = candidate.email

\* handleShortlist(candidate) from a card or from the detail view.
handleShortlist ==
    /\ ViewControls
    /\ \E index \in DOMAIN results :
        /\ \/ view = "CARD" /\ index \in currentResults
           \/ view = "DETAIL" /\ index = selectedResultIndex
        /\ LET candidate == results[index]
           IN IF exists(shortlist, candidate)
              THEN /\ alerted' = candidate.candidateName \o " is already shortlisted."
                   /\ UNCHANGED shortlist
              ELSE /\ alerted' = candidate.candidateName \o " added to shortlist!"
                   /\ shortlist' = Append(shortlist, candidate)
    /\ UNCHANGED <<view, inputVars, loading, error, results, currentPage,
                   selectedResultIndex, envVars, inFlight, runVars>>

\* handleRemoveFromShortlist(candidate), the confirm accepted:
\* setShortlist(prev => prev.filter(c => c !== candidate))
handleRemoveFromShortlist ==
    /\ ViewControls /\ view = "SHORTLIST"
    /\ \E index \in DOMAIN shortlist :
        shortlist' = SelectSeq(shortlist, LAMBDA c : c # shortlist[index])
    /\ UNCHANGED <<view, inputVars, loading, error, results, currentPage,
                   selectedResultIndex, envVars, alerted, inFlight, runVars>>

\* The App after a batch has published its results, before the first render
\* of the cards.
InitViews ==
    /\ view = "CARD"
    /\ resumes = <<TxtResume>>
    /\ jdMode = "TEXT"
    /\ jdText = "Senior React Developer"
    /\ jdFile = EmptyFileInput
    /\ provider = "gemini"
    /\ selectedModel = AI_MODELS.gemini[1]
    /\ loading = FALSE
    /\ error = JsNull
    /\ results \in {list \in SeqsUpTo(ViewResults, MaxResumes) : list # <<>> /\ Distinct(list)}
    /\ currentPage = 1
    /\ shortlist = <<>>
    /\ selectedResultIndex = JsNull
    /\ env \in Envs
    /\ responses = BatchOutcomes
    /\ downloaded = <<>>
    /\ alerted = JsNull
    /\ InitRuns

NextViews ==
    \/ renderCandidateCards
    \/ onViewDetail
    \/ onBack
    \/ setView
    \/ handleReject
    \/ handleShortlist
    \/ handleRemoveFromShortlist
    \/ handleReset
    \/ alertDismissed

SpecViews == InitViews /\ [][NextViews]_vars

\* ------------------------------------------------------------- pagination
\* Math.ceil(results.length / itemsPerPage)
totalPages == (Len(results) + itemsPerPage - 1) \div itemsPerPage

\* paginate(pageNumber) from the controls under the cards, shown when there
\* is more than one page: Prev (disabled on page 1), Next (disabled on the
\* last page) and one button per page.
paginate ==
    /\ ViewControls /\ view = "CARD" /\ Len(results) > 0
    /\ totalPages > 1
    /\ \E pageNumber \in {currentPage - 1 : x \in {1} \ {currentPage}}
                        \cup {currentPage + 1 : x \in {totalPages} \ {currentPage}}
                        \cup 1..totalPages :
        /\ pageNumber # currentPage
        /\ currentPage' = pageNumber
    /\ UNCHANGED <<view, inputVars, loading, error, results, pickVars,
                   envVars, alerted, inFlight, runVars>>

\* The result of the k-th resume of a large batch.
Candidate(k) ==
    [candidateName |-> "Candidate " \o ToString(k),
     email |-> "candidate" \o ToString(k) \o "@example.com",
     overallMatchScore |-> 50 + k, recommendation |-> "Potential Match",
     skillsAnalysis |-> <<[skill |-> "React", score |-> 70]>>]

\* Queues long enough for the cards to fill a page, and one more.
PageBatches == {itemsPerPage, itemsPerPage + 1}

\* A batch of n resumes, each of which has succeeded, about to be published.
InitPages ==
    /\ view = "INPUT"
    /\ \E n \in PageBatches :
        /\ resumes = [k \in 1..n |-> TxtResume]
        /\ newResults = [r \in RunIds |-> IF r = 1 THEN [k \in 1..n |-> Candidate(k)] ELSE <<>>]
        /\ resultOf = [r \in RunIds |-> IF r = 1 THEN [k \in 1..n |-> k] ELSE <<>>]
        /\ i = [r \in RunIds |-> IF r = 1 THEN n + 1 ELSE 1]
        /\ calls = [r \in RunIds |-> IF r = 1 THEN n ELSE 0]
    /\ jdMode = "TEXT"
    /\ jdText = "Senior React Developer"
    /\ jdFile = EmptyFileInput
    /\ provider = "gemini"
    /\ selectedModel = AI_MODELS.gemini[1]
    /\ loading = TRUE
    /\ error = JsNull
    /\ results = <<>>
    /\ currentPage = 1
    /\ shortlist = <<>>
    /\ selectedResultIndex = JsNull
    /\ env = [API_KEY |-> TRUE, OPENAI_API_KEY |-> TRUE]
    /\ responses = BatchOutcomes
    /\ downloaded = <<>>
    /\ alerted = JsNull
    /\ inFlight = 0
    /\ pc = [r \in RunIds |-> IF r = 1 THEN "publish" ELSE "idle"]
    /\ failedFiles = [r \in RunIds |-> <<>>]
    /\ failedOf = [r \in RunIds |-> <<>>]
    /\ retries = [r \in RunIds |-> DefaultRetries]
    /\ delay = [r \in RunIds |-> DefaultDelay]
    /\ budget = [r \in RunIds |-> DefaultRetries]
    /\ attempts = [r \in RunIds |-> 0]
    /\ caught = [r \in RunIds |-> <<>>]
    /\ sent = [r \in RunIds |-> JsNull]

NextPages ==
    \/ \E r \in RunIds : publishResults(r)
    \/ paginate
    \/ handleReject
    \/ handleReset

SpecPages == InitPages /\ [][NextPages]_vars

\* -------------------------------------------------------------- CSV export
\* Text is a sequence of characters here; a run of characters that are not
\* the comma, the double quote or the line feed is written as one element.
Quote == "\""
Comma == ","
Newline == "\n"

\* Array.prototype.join(sep) on texts.
RECURSIVE joinText(_, _)
joinText(list, sep) ==
    IF list = <<>> THEN <<>>
    ELSE IF Len(list) = 1 THEN list[1]
    ELSE list[1] \o <<sep>> \o joinText(Tail(list), sep)

\* A replace that leaves the text as it is.
replaceNothing(text) == text

\* text.replace(/"/g, '""')
RECURSIVE replaceQuotes(_)
replaceQuotes(text) ==
    IF text = <<>> THEN <<>>
    ELSE (IF Head(text) = Quote THEN <<Quote, Quote>> ELSE <<Head(text)>>)
            \o replaceQuotes(Tail(text))

\* r.field ? `"${r.field.replace(/"/g, '""')}"` : '""'
\* (a property that is missing, or the empty string, is falsy)
csvField(r, field) ==
    IF field \in DOMAIN r /\ r[field] # <<>>
    THEN <<Quote>> \o replaceQuotes(r[field]) \o <<Quote>>
    ELSE <<Quote, Quote>>

headers == << <<"Candidate Name">>, <<"Total Experience">>, <<"Email">>, <<"Contact Number">> >>

\* [name, exp, email, phone].join(",")
csvRow(r) ==
    joinText(<<csvField(r, "candidateName"), csvField(r, "candidateExperience"),
               csvField(r, "email"), csvField(r, "phone")>>, Comma)

\* [headers.join(","), ...results.map(...)].join("\n")
csvContent(list) ==
    joinText(<<joinText(headers, Comma)>> \o [k \in DOMAIN list |-> csvRow(list[k])], Newline)

\* Export CSV of the table view: the browser downloads csvContent.
handleExportCSV ==
    /\ view = "TABLE" /\ ~loading /\ alerted = JsNull
    /\ downloaded' = csvContent(results)
    /\ UNCHANGED <<appVars, env, responses, pickVars, alerted, inFlight, runVars>>

\* The four exported fields of a result, as texts: plain ones, ones with a
\* comma, a double quote or a line feed in them, empty ones, missing ones.
CsvNames == {<<"Ann">>, <<"Lee", Comma, " Ann">>, <<"Ann ", Quote, "Al", Quote, " Lee">>, <<Quote>>}
CsvResults ==
    {[candidateName |-> n, candidateExperience |-> <<"5 years">>,
      email |-> <<"ann@example.com">>, phone |-> <<"555 0100">>] : n \in CsvNames}
    \cup {[candidateName |-> n, candidateExperience |-> <<"2 years", Comma, Newline, "part-time">>,
            email |-> <<>>] : n \in CsvNames}
    \cup {[candidateName |-> <<>>, candidateExperience |-> <<Quote, Quote>>,
            email |-> <<Quote, Comma, Quote>>, phone |-> <<Comma>>],
           [email |-> <<"ann@example.com">>]}

\* The table view of a published batch, nothing exported yet.
InitCsv ==
    /\ view = "TABLE"
    /\ resumes = <<TxtResume>>
    /\ jdMode = "TEXT"
    /\ jdText = "Senior React Developer"
    /\ jdFile = EmptyFileInput
    /\ provider = "gemini"
    /\ selectedModel = AI_MODELS.gemini[1]
    /\ loading = FALSE
    /\ error = JsNull
    /\ results \in SeqsUpTo(CsvResults, MaxResumes)
    /\ currentPage = 1
    /\ shortlist = <<>>
    /\ selectedResultIndex = JsNull
    /\ env \in Envs
    /\ responses = BatchOutcomes
    /\ downloaded = <<>>
    /\ alerted = JsNull
    /\ InitRuns

NextCsv == handleExportCSV

SpecCsv == InitCsv /\ [][NextCsv]_vars

\* ------------------------------------------------------------------ claims
Range(f) == {f[k] : k \in DOMAIN f}
StrictlyIncreasing(f) == \A j, k \in DOMAIN f : j < k => f[j] < f[k]

\* Run r is inside handleScreening's loop, or waits to publish its results.
InLoop(r) == pc[r] \in {"loop", "operation", "awaiting", "backoff", "demoDelay"}
Active(r) == InLoop(r) \/ pc[r] = "publish"

\* The messages a failed item can be listed with.
ItemErrors ==
    {MsgResumeMissing, MsgNoJobDescription, MsgGeminiKeyMissing, MsgOpenAiKeyMissing,
     MsgEmptyDocx, MsgEmptyGemini, MsgEmptyOpenAi, MsgOpenAiPdf, MsgOpenAiNoText,
     MsgSyntaxError, MsgNetwork}

\* C1: when the loop has finished and the batch has not failed as a whole
\* (the run waits to publish), the results collected plus the failures listed
\* are as many as the queued resumes.
C1_BatchCount ==
    \A r \in RunIds :
        pc[r] = "publish" =>
            Len(newResults[r]) + Len(failedFiles[r]) = Len(resumes)

\* A finished run with a success and a failure in it.
C1_Witness ==
    \E r \in RunIds :
        pc[r] = "publish" /\ Len(newResults[r]) >= 1 /\ Len(failedFiles[r]) >= 1

\* C2: retryOperation rethrows to its caller only from the call numbered
\* 1 + retries of the operation, and never calls the operation more often.
C2_RetryBound ==
    [][\A r \in RunIds :
        /\ attempts'[r] <= 1 + budget'[r]
        /\ (pc[r] \in {"operation", "awaiting"} /\ Len(failedFiles'[r]) > Len(failedFiles[r]))
              => attempts'[r] = 1 + budget[r]
        /\ (pc[r] \in {"operation", "awaiting"} /\ pc'[r] = "backoff")
              => attempts'[r] < 1 + budget[r]]_vars

\* The default retries = 2: the failure is listed after exactly 3 calls.
C2_Witness ==
    \E r \in RunIds :
        /\ budget[r] = 2 /\ attempts[r] = 3 /\ calls[r] = 3
        /\ pc[r] = "loop" /\ Len(failedFiles[r]) = 1

\* C3: a failed item is listed in the manifest under its file name with the
\* error's message, and the loop goes on with the next item: at every point
\* of the loop all the items before the current one, and only they, have
\* been resolved, whichever of them failed.
C3_FailureContinues ==
    \A r \in RunIds :
        Active(r) =>
            /\ Len(failedFiles[r]) = Len(failedOf[r])
            /\ Range(resultOf[r]) \cup Range(failedOf[r]) = 1..(i[r] - 1)
            /\ i[r] <= Len(resumes) + 1
            /\ pc[r] = "publish" => i[r] = Len(resumes) + 1
            /\ \A k \in 1..Len(failedOf[r]) :
                \E message \in ItemErrors :
                    failedFiles[r][k] =
                        ManifestEntry(fileNameOf(resumes[failedOf[r][k]], failedOf[r][k]), message)

\* The first item has failed after its retries and a later one has succeeded.
C3_Witness ==
    \E r \in RunIds :
        /\ failedFiles[r] = <<ManifestEntry("ann.txt", MsgNetwork)>>
        /\ failedOf[r] = <<1>>
        /\ resultOf[r] = <<2>>

\* C4: at most one provider request is in flight, at most one run is active,
\* and while a run works on an item every earlier item has been resolved and
\* the item itself has not.
C4_OneInFlight ==
    /\ inFlight <= 1
    /\ inFlight = Cardinality({r \in RunIds : pc[r] = "awaiting"})
    /\ Cardinality({r \in RunIds : Active(r)}) <= 1
    /\ \A r \in RunIds :
        pc[r] \in {"operation", "awaiting", "backoff", "demoDelay"} =>
            /\ i[r] <= Len(resumes)
            /\ Len(newResults[r]) + Len(failedFiles[r]) = i[r] - 1

\* The second item's request is in flight on a retry, the first is resolved.
C4_Witness ==
    \E r \in RunIds :
        /\ pc[r] = "awaiting" /\ inFlight = 1
        /\ i[r] = 2 /\ attempts[r] >= 2
        /\ Len(newResults[r]) + Len(failedFiles[r]) = 1

\* C5: the results are in the order of their inputs, and so are the entries
\* of the failure manifest.
C5_OrderPreserved ==
    \A r \in RunIds :
        /\ Len(newResults[r]) = Len(resultOf[r])
        /\ Len(failedFiles[r]) = Len(failedOf[r])
        /\ StrictlyIncreasing(resultOf[r])
        /\ StrictlyIncreasing(failedOf[r])

\* Two results collected.
C5_Witness ==
    \E r \in RunIds : Len(resultOf[r]) >= 2 /\ pc[r] = "publish"

\* Neither a job-description text nor a job-description document is there.
NoJobDescription == TrimIsEmpty(jdText) /\ Falsy(jdFile.file)

MissingJdErrors == {MsgNoJdText, MsgNoJdFile}

C7_EmptyBatch ==
    [][Len(resumes) = 0 =>
        /\ UNCHANGED <<pc, inFlight, calls>>
        /\ ~loading /\ ~loading'
        /\ error' # error => error' = MsgNoResumes]_vars

\* The call has failed for the empty queue, the job description being there.
C7_Witness ==
    /\ Len(resumes) = 0
    /\ ~NoJobDescription
    /\ error = MsgNoResumes
    /\ ~loading /\ inFlight = 0 /\ \A r \in RunIds : Idle(r) /\ calls[r] = 0

\* C8: when the loop ends with no result and at least one failure, the run
\* returns with loading cleared and the one error made of every manifest
\* entry, and shows no results; when it ends with a result, the results are
\* published as collected, and the manifest, if not empty, is alerted.
C8_AfterLoop ==
    [][\A r \in RunIds :
        /\ (pc[r] = "loop" /\ i[r] > Len(resumes) /\ pc'[r] # "loop") =>
              IF Len(newResults[r]) = 0 /\ Len(failedFiles[r]) > 0
              THEN /\ error' = AllFailedMessage(failedFiles[r])
                   /\ ~loading'
                   /\ pc'[r] = "idle"
                   /\ UNCHANGED <<results, view, alerted>>
              ELSE /\ pc'[r] = "publish"
                   /\ UNCHANGED <<newResults, failedFiles, error, results, view>>
        /\ (pc[r] = "publish" /\ pc'[r] # "publish") =>
              /\ results' = newResults[r]
              /\ Len(results') > 0
              /\ ~loading'
              /\ error' = error
              /\ alerted' = IF failedFiles[r] = <<>> THEN alerted
                            ELSE IssuesAlert(failedFiles[r])]_vars

\* A batch of two has failed as a whole: the error lists both failures.
C8_Witness ==
    /\ error = "Failed to process all resumes. Issues:\nann.txt (Failed to fetch)\nnil.txt (Resume file content is missing.)"
    /\ ~loading
    /\ results = <<>>
    /\ view = "INPUT"

\* Every value the loop collects has every field of a ScreeningResult.
IsComplete(v) == DOMAIN v = ScreeningResultFields

\* C9: each input is behind at most one result, and every result collected
\* or shown is a complete ScreeningResult, never a partial or null value.
C9_ResultsComplete ==
    /\ \A r \in RunIds :
        /\ Len(newResults[r]) = Len(resultOf[r])
        /\ StrictlyIncreasing(resultOf[r])
        /\ \A k \in 1..Len(newResults[r]) : IsComplete(newResults[r][k])
    /\ \A k \in 1..Len(results) : IsComplete(results[k])

\* C10: no result shown or collected carries a recommendation outside the
\* four values of the enumeration.
C10_RecommendationClosed ==
    /\ \A r \in RunIds : \A k \in 1..Len(newResults[r]) :
        "recommendation" \in DOMAIN newResults[r][k] =>
            newResults[r][k].recommendation \in Recommendations
    /\ \A k \in 1..Len(results) :
        "recommendation" \in DOMAIN results[k] =>
            results[k].recommendation \in Recommendations

\* A score the result type allows: an integer from 0 to 100.
InRange(score) == score \in 0..100

ScoresInRange(v) ==
    /\ "overallMatchScore" \in DOMAIN v => InRange(v.overallMatchScore)
    /\ "skillsAnalysis" \in DOMAIN v =>
            \A k \in DOMAIN v.skillsAnalysis : InRange(v.skillsAnalysis[k].score)

\* C11: every result screenResume has produced, from the provider or from
\* the demo path, has its overallMatchScore and each of its skill scores in
\* 0..100, whatever numbers the provider has returned.
C11_ScoresInRange ==
    /\ \A r \in RunIds : \A k \in DOMAIN newResults[r] : ScoresInRange(newResults[r][k])
    /\ \A k \in DOMAIN results : ScoresInRange(results[k])

\* C12: no step of the result views changes a result: the results shown
\* after the step are results shown before it, and the shortlist holds only
\* results it held or that were shown, each as it was.
C12_ResultsImmutable ==
    [][/\ Range(results') \subseteq Range(results)
       /\ Range(shortlist') \subseteq Range(shortlist) \cup Range(results)]_vars

\* The result is the one generateMockResult makes.
IsSynthesized(v) == "email" \in DOMAIN v /\ v.email = "demo.candidate@example.com"

\* The item's provenance is cloud-import and its payload is the marker.
IsPlaceholder(resume) ==
    resume.source = "sharepoint" /\ resume.base64 = "MOCK_BASE64_CONTENT_FOR_DEMO_ONLY"

\* C13: a run is on the demo path, or holds a synthesized result, only for
\* an item from the cloud import whose payload is the marker, and the demo
\* path has made no attempt and sent no request for the item; an item with
\* any other payload or provenance gets its result from the provider.
C13_DemoOnlyForMarker ==
    \A r \in RunIds :
        /\ pc[r] = "demoDelay" =>
                /\ IsPlaceholder(resumes[i[r]])
                /\ attempts[r] = 0 /\ sent[r] = JsNull /\ caught[r] = <<>>
        /\ \A k \in DOMAIN newResults[r] :
                IsSynthesized(newResults[r][k]) <=> IsPlaceholder(resumes[resultOf[r][k]])
        /\ pc[r] \in {"operation", "awaiting", "backoff"} => ~IsPlaceholder(resumes[i[r]])

\* The placeholder has its synthesized result, no request having been sent,
\* with a job description whose context could not have been built.
C13_Witness ==
    \E r \in RunIds :
        /\ pc[r] = "publish" /\ resumes = <<MockResume>>
        /\ IsSynthesized(newResults[r][1])
        /\ calls[r] = 0 /\ inFlight = 0
        /\ ~jdContext(jdText, jobDescriptionFile, provider).ok

\* The selected provider's credential is not in the environment.
CredentialAbsent ==
    \/ provider = "gemini" /\ ~env.API_KEY
    \/ provider = "openai" /\ ~env.OPENAI_API_KEY

MissingCredentialError ==
    IF provider = "gemini" THEN MsgGeminiKeyMissing ELSE MsgOpenAiKeyMissing

\* C14: with the credential absent no request is ever sent or in flight, no
\* item succeeds, every item that has content is listed with the
\* missing-credential error, and the loop resolves the items one after the
\* other to the end of the queue.
C14_MissingCredential ==
    CredentialAbsent =>
        /\ inFlight = 0
        /\ \A r \in RunIds :
            /\ calls[r] = 0 /\ sent[r] = JsNull /\ pc[r] # "awaiting"
            /\ newResults[r] = <<>>
            /\ Active(r) => Range(failedOf[r]) = 1..(i[r] - 1)
            /\ \A k \in DOMAIN failedFiles[r] :
                LET n == failedOf[r][k]
                IN ~Falsy(resumes[n].base64) =>
                    failedFiles[r][k] =
                        ManifestEntry(fileNameOf(resumes[n], n), MissingCredentialError)

\* Both items of a queue of two have failed for the missing credential, the
\* second after three attempts, and no request has been sent.
C14_Witness ==
    \E r \in RunIds :
        /\ CredentialAbsent
        /\ Len(resumes) = 2
        /\ failedFiles[r] = <<ManifestEntry("ann.txt", MissingCredentialError),
                              ManifestEntry("ann.txt", MissingCredentialError)>>
        /\ attempts[r] = 3 /\ calls[r] = 0

\* C15: with OpenAI and its credential, a PDF resume is never listed as
\* failed for being a PDF, and while the request for an item is in flight
\* with a PDF job description, the placeholder is the context it carries.
C15_PdfDegraded ==
    (provider = "openai" /\ env.OPENAI_API_KEY) =>
        \A r \in RunIds :
            /\ \A k \in DOMAIN failedFiles[r] :
                LET n == failedOf[r][k]
                IN resumes[n].mimeType = PdfMime =>
                    failedFiles[r][k] # ManifestEntry(fileNameOf(resumes[n], n), MsgOpenAiPdf)
            /\ (pc[r] = "awaiting" /\ jobDescriptionFile = PdfJd) =>
                    sent[r].messages[1].content =
                        "(Attached JD is a PDF - Please copy text for better results)"

\* The supported set C16 names: plain text, word-processing documents, PDF.
SupportedMimes == {TextMime, DocxMime, DocMime, PdfMime}

\* C16: no request is in flight for a resume whose media type is outside
\* the supported set, and no result is collected for one.
C16_UnsupportedRejected ==
    \A r \in RunIds :
        /\ pc[r] = "awaiting" => resumes[i[r]].mimeType \in SupportedMimes
        /\ \A k \in DOMAIN resultOf[r] :
                resumes[resultOf[r][k]].mimeType \in SupportedMimes

\* The step lists a failure of run r.
ListsFailure(r) == Len(failedFiles'[r]) > Len(failedFiles[r])

\* The message in the entry the step has listed for the current item.
ListedWith(r, message) ==
    failedFiles'[r][Len(failedFiles'[r])] =
        ManifestEntry(fileNameOf(resumes[i[r]], i[r]), message)

\* C17 as claimed: whatever the failure, it is listed after exactly
\* 1 + retries calls of the operation.
C17_AsClaimed ==
    [][\A r \in RunIds : ListsFailure(r) => attempts'[r] = 1 + budget'[r]]_vars

\* C17, amended: a failure raised by the operation, whatever its kind, is
\* listed after exactly 1 + retries calls, each of which has thrown; missing
\* resume content and a missing job description are raised by screenResume
\* before it calls retryOperation, and are listed with no call made.
C17_RetriedIdentically ==
    [][\A r \in RunIds : ListsFailure(r) =>
        IF pc[r] \in {"operation", "awaiting"}
        THEN /\ attempts'[r] = 1 + budget[r]
             /\ Len(caught'[r]) = 1 + budget[r]
             /\ ~ListedWith(r, MsgResumeMissing) /\ ~ListedWith(r, MsgNoJobDescription)
        ELSE /\ pc[r] = "loop"
             /\ attempts'[r] = 0 /\ caught'[r] = <<>> /\ calls'[r] = calls[r]
             /\ ListedWith(r, MsgResumeMissing) \/ ListedWith(r, MsgNoJobDescription)]_vars

\* An unsupported provider has been reported after three calls, each of
\* which has thrown it.
C17_Witness ==
    \E r \in RunIds :
        /\ failedFiles[r] = <<ManifestEntry("ann.txt", "Unsupported provider: mistral")>>
        /\ attempts[r] = 3
        /\ caught[r] = <<"Unsupported provider: mistral", "Unsupported provider: mistral",
                         "Unsupported provider: mistral">>

\* C18: when retryOperation gives up, the step that lists the failure is
\* the one in which the last call of the operation has thrown, and the entry
\* carries that error's message as it is, whatever the earlier calls threw.
C18_LastErrorPropagated ==
    [][\A r \in RunIds :
        (ListsFailure(r) /\ pc[r] \in {"operation", "awaiting"}) =>
            /\ Len(caught'[r]) = Len(caught[r]) + 1
            /\ SubSeq(caught'[r], 1, Len(caught[r])) = caught[r]
            /\ ListedWith(r, caught'[r][Len(caught'[r])])]_vars

\* Three calls have failed in three ways, and the entry has the third.
C18_Witness ==
    \E r \in RunIds :
        /\ caught[r] = <<MsgNetwork, MsgEmptyGemini, MsgSyntaxError>>
        /\ failedFiles[r] = <<ManifestEntry("ann.txt", MsgSyntaxError)>>

\* The request carries the file's stored bytes as an inline document.
HasInline(req, file) ==
    /\ "parts" \in DOMAIN req
    /\ \E k \in DOMAIN req.parts :
        /\ "inlineData" \in DOMAIN req.parts[k]
        /\ req.parts[k].inlineData.data = file.base64

\* The request carries the decoded bytes of the file as the resume text.
HasRawText(req, file) ==
    /\ "messages" \in DOMAIN req
    /\ req.messages[2].content = "Here is the resume content:\n\n" \o atob(file.base64)

WordMimes == {DocxMime, DocMime}

\* C19: while the request for a word-processing resume is in flight, it
\* carries neither the document's bytes inline nor its decoded bytes as the
\* text, and it carries no word-processing job description inline.
C19_WordExtracted ==
    \A r \in RunIds :
        pc[r] = "awaiting" =>
            /\ resumes[i[r]].mimeType \in WordMimes =>
                    /\ ~HasInline(sent[r], resumes[i[r]])
                    /\ ~HasRawText(sent[r], resumes[i[r]])
            /\ (jdMode = "FILE" /\ jdFile.mimeType \in WordMimes) =>
                    ~HasInline(sent[r], jdFile)

\* The job-description context of the request's prompt.
ContextOf(req) ==
    IF "parts" \in DOMAIN req THEN req.parts[Len(req.parts)].text
    ELSE req.messages[1].content

\* C20: while a request is in flight, a plain-text resume is in it (inline
\* or decoded), a plain-text job-description document is in it (inline, or
\* decoded as the context), and a context that points to an attached
\* job-description document comes with that document attached.
C20_TextIncluded ==
    \A r \in RunIds :
        pc[r] = "awaiting" =>
            /\ resumes[i[r]].mimeType = TextMime =>
                    HasInline(sent[r], resumes[i[r]]) \/ HasRawText(sent[r], resumes[i[r]])
            /\ (jdMode = "FILE" /\ jdFile = TxtJd) =>
                    HasInline(sent[r], jdFile) \/ ContextOf(sent[r]) = atob(jdFile.base64)
            /\ ContextOf(sent[r]) = "(See attached Job Description document)" =>
                    HasInline(sent[r], jdFile)

\* The loop of run r is over with every queued item resolved.
AllResolved(r) ==
    /\ i[r] = Len(resumes) + 1
    /\ Len(newResults[r]) + Len(failedFiles[r]) = Len(resumes)
    /\ Range(resultOf[r]) \cup Range(failedOf[r]) = 1..Len(resumes)

\* The call has returned: loading is cleared, and the results are published
\* or the batch-level error is set.
Finished(r) ==
    /\ Idle(r)
    /\ ~loading
    /\ \/ view = "CARD" /\ Len(results) > 0
       \/ error # JsNull /\ results = <<>>

\* A run has passed the checks and is about to take up its first item.
Started == \E r \in RunIds : pc[r] = "loop" /\ i[r] = 1 /\ loading

\* C21: once a run has passed the checks and entered its loop, eventually
\* its loop is over with every queued item resolved, as a success or as a
\* failure, and eventually the call has returned with loading cleared and
\* either results published or the batch-level error set.
C21_RunFinishes ==
    /\ Started ~> (\E r \in RunIds : pc[r] = "loop" /\ AllResolved(r))
    /\ Started ~> (\A r \in RunIds : Finished(r))

\* A batch of two has finished: one item failed after its retries and is in
\* the alert, the other's result is published.
C21_Witness ==
    /\ \A r \in RunIds : Finished(r)
    /\ Len(resumes) = 2 /\ Len(results) = 1 /\ view = "CARD"
    /\ alerted = IssuesAlert(<<ManifestEntry("ann.txt", MsgNetwork)>>)

\* A reader of comma-separated text with standard quoting: a field in double
\* quotes runs to the closing quote, a doubled quote inside it standing for
\* one; a comma outside quotes ends the field, a line feed outside quotes
\* the row.  Each field is read with whether it was quoted.
RECURSIVE readCsv(_, _, _, _, _)
readCsv(text, inQuotes, field, row, rows) ==
    IF text = <<>> THEN Append(rows, Append(row, field))
    ELSE LET c == Head(text)
             rest == Tail(text)
         IN IF inQuotes
            THEN IF c = Quote
                 THEN IF rest # <<>> /\ Head(rest) = Quote
                      THEN readCsv(Tail(rest), TRUE,
                                   [field EXCEPT !.text = Append(@, Quote)], row, rows)
                      ELSE readCsv(rest, FALSE, field, row, rows)
                 ELSE readCsv(rest, TRUE, [field EXCEPT !.text = Append(@, c)], row, rows)
            ELSE IF c = Quote
                 THEN readCsv(rest, TRUE, [field EXCEPT !.quoted = TRUE], row, rows)
            ELSE IF c = Comma
                 THEN readCsv(rest, FALSE, [text |-> <<>>, quoted |-> FALSE],
                              Append(row, field), rows)
            ELSE IF c = Newline
                 THEN readCsv(rest, FALSE, [text |-> <<>>, quoted |-> FALSE],
                              <<>>, Append(rows, Append(row, field)))
            ELSE readCsv(rest, FALSE, [field EXCEPT !.text = Append(@, c)], row, rows)

ReadTable(text) == readCsv(text, FALSE, [text |-> <<>>, quoted |-> FALSE], <<>>, <<>>)

\* The value of a result's field, the empty text when it is missing.
ValueOf(r, field) == IF field \in DOMAIN r THEN r[field] ELSE <<>>

ExportedColumns == <<"candidateName", "candidateExperience", "email", "phone">>

\* C22: read back with standard quoting, the exported text is the header row
\* of the four column names followed by one row per result in result order,
\* each of exactly four fields: the result's name, experience, email and
\* contact number as they are, each having been written in double quotes.
C22_CsvExport ==
    downloaded # <<>> =>
        LET table == ReadTable(downloaded)
        IN /\ Len(table) = 1 + Len(results)
           /\ table[1] = [c \in 1..4 |-> [text |-> headers[c], quoted |-> FALSE]]
           /\ \A k \in DOMAIN results :
                table[k + 1] = [c \in 1..4 |->
                    [text |-> ValueOf(results[k], ExportedColumns[c]), quoted |-> TRUE]]

\* Two results have been exported, the first with double quotes in its
\* name, the second with a comma and a line feed in a field and no phone.
C22_Witness ==
    /\ downloaded # <<>>
    /\ results =
        <<[candidateName |-> <<"Ann ", Quote, "Al", Quote, " Lee">>,
           candidateExperience |-> <<"5 years">>,
           email |-> <<"ann@example.com">>, phone |-> <<"555 0100">>],
          [candidateName |-> <<"Lee", Comma, " Ann">>,
           candidateExperience |-> <<"2 years", Comma, Newline, "part-time">>,
           email |-> <<>>]>>

\* Where item k of a run stands, from the run's position pcr, its index ir
\* and the inputs behind its results and its manifest entries.
ItemState(pcr, ir, resOf, failOf, k) ==
    IF k = ir /\ pcr \in {"operation", "awaiting", "backoff", "demoDelay"} THEN "InFlight"
    ELSE IF k \in Range(resOf) THEN "Succeeded"
    ELSE IF k \in Range(failOf) THEN "Failed"
    ELSE "Pending"

\* The moves of an item in one step.  An item whose screenResume call throws
\* before its first suspension is taken up and resolved in the same step.
ItemMoves ==
    {<<"Pending", "Pending">>, <<"Pending", "InFlight">>, <<"Pending", "Failed">>,
     <<"InFlight", "InFlight">>, <<"InFlight", "Succeeded">>, <<"InFlight", "Failed">>,
     <<"Succeeded", "Succeeded">>, <<"Failed", "Failed">>}

\* C23: while a run lasts, each item moves only from Pending to InFlight and
\* from there to Succeeded or to Failed, the item taken up being the one the
\* loop is at; a resolved item stays as it is and is behind exactly one
\* result or manifest entry; and a step between two attempts of an item (into
\* the wait or out of it) writes no result, no manifest entry, and shows
\* nothing.
C23_ItemStateMachine ==
    [][\A r \in RunIds :
        (~Idle(r) /\ pc'[r] # "idle") =>
            /\ \A k \in 1..Len(resumes) :
                LET before == ItemState(pc[r], i[r], resultOf[r], failedOf[r], k)
                    after == ItemState(pc'[r], i'[r], resultOf'[r], failedOf'[r], k)
                IN /\ <<before, after>> \in ItemMoves
                   /\ (before = "Pending" /\ after # "Pending") => k = i[r]
                   /\ after = "Pending" => k >= i'[r]
            /\ Len(resultOf'[r]) + Len(failedOf'[r]) =
                    Cardinality(Range(resultOf'[r]) \cup Range(failedOf'[r]))
            /\ Len(newResults'[r]) = Len(resultOf'[r])
            /\ Len(failedFiles'[r]) = Len(failedOf'[r])
            /\ (pc[r] = "backoff" \/ pc'[r] = "backoff") =>
                    UNCHANGED <<i, newResults, failedFiles, resultOf, failedOf,
                                results, error, alerted, view>>]_vars

\* The first item has failed, the second is between its second and third
\* attempts.
C23_Witness ==
    \E r \in RunIds :
        /\ pc[r] = "backoff" /\ i[r] = 2 /\ attempts[r] = 2
        /\ failedOf[r] = <<1>> /\ resultOf[r] = <<>>

\* Run r waits in the setTimeout of retryOperation; delay[r] is its length.
Waiting(r) == pc[r] = "backoff"

\* C24: a wait of retryOperation starts only when a call of the operation
\* has just thrown and was not the last of the 1 + retries calls; the wait
\* after the k-th call (before the k-th retry) lasts delay * 2^(k-1); the
\* wait ends in the next call of the operation; and no wait follows the
\* last failed call or a call that succeeded.
C24_Backoff ==
    [][\A r \in RunIds :
        /\ (~Waiting(r) /\ pc'[r] = "backoff") =>
                /\ pc[r] \in {"operation", "awaiting"}
                /\ Len(caught'[r]) = Len(caught[r]) + 1
                /\ attempts'[r] \in 1..budget[r]
                /\ delay'[r] = DefaultDelay * 2^(attempts'[r] - 1)
        /\ (Waiting(r) /\ pc'[r] # "backoff") =>
                /\ pc'[r] = "operation"
                /\ UNCHANGED <<attempts, caught>>
        /\ (pc[r] = "operation" /\ Len(caught[r]) > 0) => delay[r] = DefaultDelay * 2^attempts[r]
        /\ (pc[r] \in {"operation", "awaiting"} /\ attempts'[r] = 1 + budget[r]) =>
                pc'[r] # "backoff"
        /\ (Len(newResults'[r]) > Len(newResults[r]) \/ ListsFailure(r)) =>
                pc'[r] # "backoff"]_vars

\* The defaults: the second call has thrown, and the wait before the second
\* retry is of 2000 ms, the first having been of 1000 ms.
C24_Witness ==
    \E r \in RunIds :
        /\ Waiting(r) /\ budget[r] = DefaultRetries
        /\ attempts[r] = 2 /\ delay[r] = 2000

\* A row of the ranking without its originalIndex.
RowResult(row) == [f \in DOMAIN row \ {"originalIndex"} |-> row[f]]

\* The candidates of a list, in its order.
NamesAndScores(list) ==
    [k \in DOMAIN list |-> <<list[k].candidateName, list[k].overallMatchScore>>]

\* C25: the ranking of BatchSummary has every result exactly once, in
\* non-increasing overallMatchScore order; the Details button of a row opens
\* the index at which the results sequence holds that row's result; and no
\* step that keeps the number of results changes their order.
C25_Ranking ==
    [][/\ LET ranking == sortedResults(results)
          IN /\ Len(ranking) = Len(results)
             /\ {ranking[k].originalIndex : k \in DOMAIN ranking} = DOMAIN results
             /\ \A j, k \in DOMAIN ranking :
                    j < k => ranking[j].overallMatchScore >= ranking[k].overallMatchScore
             /\ \A row \in DOMAIN paginatedResults(results) :
                    /\ detailsIndex(results, row) \in DOMAIN results
                    /\ results[detailsIndex(results, row)] = RowResult(ranking[row])
       /\ Len(results') = Len(results) => NamesAndScores(results') = NamesAndScores(results)
       /\ (view = "CARD" /\ view' = "DETAIL") => selectedResultIndex' \in DOMAIN results]_vars

\* The detail view is open on the second result, which is first in the
\* ranking.
C25_Witness ==
    /\ view = "DETAIL" /\ selectedResultIndex = 2
    /\ Len(results) = 2
    /\ results[1].overallMatchScore < results[2].overallMatchScore
    /\ sortedResults(results)[1].originalIndex = 2

\* C26: while a run is in its loop or waits to publish, no step changes the
\* results shown or the view; the results are published in one step, once
\* every queued item has been resolved; and the step in which the batch
\* fails as a whole, every item having failed, leaves the results shown, the
\* queued resumes, the shortlist and the view as they are, clears loading
\* and sets the error.
C26_PublishedAfterLoop ==
    [][\A r \in RunIds :
        /\ (Active(r) /\ pc'[r] # "idle") => UNCHANGED <<results, view, currentPage>>
        /\ (pc[r] = "publish" /\ pc'[r] = "idle") =>
                /\ AllResolved(r)
                /\ results' = newResults[r]
        /\ (InLoop(r) /\ pc'[r] = "idle") =>
                /\ pc[r] = "loop"
                /\ AllResolved(r) /\ Len(failedFiles[r]) = Len(resumes)
                /\ UNCHANGED <<results, resumes, shortlist, view>>
                /\ loading /\ ~loading'
                /\ error' = AllFailedMessage(failedFiles[r])]_vars

\* A batch of two has failed as a whole with a candidate on the shortlist:
\* nothing is shown, the queue and the shortlist are as they were.
C26_Witness ==
    /\ error = AllFailedMessage(<<ManifestEntry("ann.txt", MsgNetwork),
                                  ManifestEntry("ann.txt", MsgNetwork)>>)
    /\ ~loading /\ view = "INPUT"
    /\ results = <<>> /\ resumes = <<TxtResume, TxtResume>> /\ shortlist = <<Cal>>
    /\ \A r \in RunIds : Idle(r)

\* C27: whenever results are shown in the card grid, the page number is one
\* of the pages there are, and the page has at least one candidate on it.
C27_PageValid ==
    (view = "CARD" /\ Len(results) > 0) =>
        /\ currentPage \in 1..totalPages
        /\ currentResults # {}

\* C28: in the card view the New Screen button, which leads back to the
\* input view, can be clicked; in the table and shortlist views the Back
\* button can, and leads to a card view with results, where New Screen is.
C28_ResetAvailable ==
    ViewControls =>
        /\ view = "CARD" => ENABLED handleReset
        /\ view \in {"TABLE", "SHORTLIST"} => (ENABLED onBack) /\ Len(results) > 0

\* C29: the selected model is one of the models of the selected provider,
\* and so is the model named in a request that is in flight.
C29_ModelOfProvider ==
    /\ selectedModel \in Range(AI_MODELS[provider])
    /\ \A r \in RunIds :
        pc[r] = "awaiting" => sent[r].model \in Range(AI_MODELS[provider])

\* After a change to OpenAI and the choice of its second model, a request
\* naming that model is in flight.
C29_Witness ==
    \E r \in RunIds :
        /\ provider = "openai" /\ selectedModel = "gpt-4o-mini"
        /\ pc[r] = "awaiting" /\ sent[r].model = "gpt-4o-mini"

\* The (candidateName, email) pairs of a list.
PairOf(c) == <<c.candidateName, c.email>>
Pairs(list) == {PairOf(list[k]) : k \in DOMAIN list}

NoDuplicatePairs(list) ==
    \A j, k \in DOMAIN list : j # k => PairOf(list[j]) # PairOf(list[k])

\* C30: no two entries of the shortlist have the same (candidateName,
\* email) pair; a click on Shortlist for a candidate whose pair is on the
\* list leaves the list as it is, and for any other candidate appends that
\* candidate; a rejection and New Screen leave the list as it is; and only
\* the removal in the shortlist view takes a pair off the list, exactly the
\* one removed.
C30_ShortlistUnique ==
    [][/\ NoDuplicatePairs(shortlist) /\ NoDuplicatePairs(shortlist')
       /\ (alerted = JsNull /\ alerted' # JsNull) =>
            \E c \in Range(results) :
                IF PairOf(c) \in Pairs(shortlist)
                THEN /\ shortlist' = shortlist
                     /\ alerted' = c.candidateName \o " is already shortlisted."
                ELSE /\ shortlist' = Append(shortlist, c)
                     /\ alerted' = c.candidateName \o " added to shortlist!"
       /\ (Len(results') < Len(results) \/ (view # "INPUT" /\ view' = "INPUT")) =>
            shortlist' = shortlist
       /\ Pairs(shortlist) \subseteq Pairs(shortlist') \/
            /\ view = "SHORTLIST"
            /\ \E k \in DOMAIN shortlist :
                shortlist' = SubSeq(shortlist, 1, k - 1) \o SubSeq(shortlist, k + 1, Len(shortlist))]_vars

\* Two results of the same candidate are shown; one is on the shortlist,
\* and the click for the other has been answered "already shortlisted".
C30_Witness ==
    /\ alerted = "Bea is already shortlisted."
    /\ Len(results) = 2
    /\ PairOf(results[1]) = PairOf(results[2])
    /\ Len(shortlist) = 1 /\ PairOf(shortlist[1]) = PairOf(results[1])

====
